---- MODULE Spec2Model ----
(***************************************************************************)
(* Model of weather-images: the two-tier image cache                       *)
(* (src/src/services/chart.js, lines 437-718: the process-wide             *)
(* MEMORY_CACHE Map, the FileSystemCache and AzureBlobCache backends, the  *)
(* lazy getCache() singleton and generateCacheKey), the request handlers   *)
(* GET /api/weather-image and GET /api/weather-year-image that use it      *)
(* (src/unnamed/part_002), and the chart builders buildWeatherChartSvg and *)
(* buildYearHeatmapSvg up to the size of their canvas (chart.js, lines     *)
(* 13-122, 279-342).                                                       *)
(*                                                                         *)
(* JavaScript runs one callback at a time, so every action below is the    *)
(* code that runs between two suspension points (await) of one call.       *)
(*                                                                         *)
(* Spec:          several callers go through getCache() and contend on one *)
(*                key; every durable operation may fail.                   *)
(* SpecLive:      callers go through getCache() and read; the steps of the *)
(*                initialization are taken in the end (weak fairness).     *)
(* SpecFill:      one caller fills the Memory Tier up to and beyond its    *)
(*                capacity of 100 entries.                                 *)
(* SpecWarm:      several callers contend on one key while the Memory Tier *)
(*                is about to be full.                                     *)
(* SpecServe:     several handlers serve requests for one fingerprint.     *)
(* SpecServeFill: one handler serves requests for more than 100            *)
(*                fingerprints, one after the other.                       *)
(* SpecYear:      one handler serves one year heatmap request, whose year  *)
(*                and cell_size are well-formed or not.                    *)
(* SpecKey:       generateCacheKey applied to two parameter objects.       *)
(* SpecChart:     a handler whose upstream data arrives calls one of the   *)
(*                chart builders on an hourly series.                      *)
(***************************************************************************)
EXTENDS Integers, Sequences, FiniteSets, TLC

\* ---------------------------------------------------------------- bounds
NumReq == 2          \* concurrent callers of the cache
NumBytes == 2        \* distinct byte strings a caller may store
MaxFill == 101       \* distinct further keys used to fill the Memory Tier
NumNames == 2        \* property names a parameter object may have
MaxSamples == 2      \* samples of an hourly series
NumDays == 2         \* calendar dates an hourly series may span

\* ------------------------------------------------------- program constants
MAX_MEMORY_CACHE_SIZE == 100
numCols == 24        \* columns of the year heatmap grid
WIDTH == 700
HEIGHT == 420
CELL_SIZE == 8
HEATMAP_MARGIN == [top |-> 44, right |-> 20, bottom |-> 32, left |-> 20]

None == "none"
Null == 0            \* the value null: a cache miss
Undefined == 0 - 1   \* the value undefined: what set() resolves to
NoKey == 0 - 1       \* no fingerprint
NoData == 0          \* no bytes
Reqs == 1..NumReq
Bytes == 1..NumBytes
HotKey == 0                              \* the fingerprint callers contend on
Formats == {"svg", "png", "jpeg"}        \* req.query.format is not validated

\* ------------------------------------------------------------------ Map
\* A JavaScript Map: iteration order is insertion order; set() of a key that
\* is present replaces the value in place.
MapIndex(m, k) == CHOOSE i \in 1..Len(m) : m[i].k = k

MapHas(m, k) == \E i \in 1..Len(m) : m[i].k = k

MapGet(m, k) == m[MapIndex(m, k)].v

MapKeys(m) == {m[i].k : i \in 1..Len(m)}

\* a Map whose set() leaves the value of a key that is present alone
MapSetKeepsOld(m, k, v) ==
  IF MapHas(m, k) THEN m ELSE Append(m, [k |-> k, v |-> v])

MapSet(m, k, v) ==
  IF MapHas(m, k)
    THEN [m EXCEPT ![MapIndex(m, k)] = [k |-> k, v |-> v]]
    ELSE Append(m, [k |-> k, v |-> v])

MapDelete(m, k) ==
  IF MapHas(m, k)
    THEN LET i == MapIndex(m, k)
         IN  SubSeq(m, 1, i - 1) \o SubSeq(m, i + 1, Len(m))
    ELSE m

\* MEMORY_CACHE.keys().next().value
MapFirstKey(m) == m[1].k

\* --------------------------------------------------------------- helpers
\* a memory key that leaves the format out
MemoryKeyWithoutFormat(key, format) == <<key, "any">>

\* `${key}:${format}`
MemoryKey(key, format) == <<key, format>>

\* format === "svg" ? "svg" : "png"
Ext(format) == IF format = "svg" THEN "svg" ELSE "png"

\* path.join(CACHE_DIR, `${key}.${ext}`), and the blob name `${key}.${ext}`
GetCachePath(key, format) == <<key, Ext(format)>>

\* an eviction that starts one entry too late (> for >=)
EvictOldestLate(m) ==
  IF Len(m) > MAX_MEMORY_CACHE_SIZE
    THEN MapDelete(m, MapFirstKey(m))
    ELSE m

\* if (MEMORY_CACHE.size >= MAX_MEMORY_CACHE_SIZE) delete the first key
EvictOldest(m) ==
  IF Len(m) >= MAX_MEMORY_CACHE_SIZE
    THEN MapDelete(m, MapFirstKey(m))
    ELSE m

\* a store that never evicts
MemoryStoreNoEviction(m, k, v) == MapSet(m, k, v)

\* the eviction followed by MEMORY_CACHE.set(memoryKey, bufferCopy)
MemoryStore(m, k, v) == MapSet(EvictOldest(m), k, v)

\* a directory or container: a function from the paths present to their bytes
NoFiles == [p \in {} |-> None]

HasFile(dir, p) == p \in DOMAIN dir

WriteFile(dir, p, data) == (p :> data) @@ dir

\* ----------------------------------------------------------------- state
VARIABLES
  MEMORY_CACHE,      \* the Map, as a sequence of [k, v] in insertion order
  files,             \* CACHE_DIR: the files present and their bytes
  blobs,             \* the blob container: the blobs present and their bytes
  STORAGE_TYPE,      \* process.env.STORAGE_TYPE
  azureConfigured,   \* connection string, or managed identity with account name
  cacheInstance,     \* None, "fs" or "azure"
  cacheInitPromise,  \* None or "pending"
  initPc,            \* where the initialization body is suspended
  containerClient,   \* the AzureBlobCache instance has its containerClient
  initCompleted,     \* instances whose init() has returned
  initStarts,        \* number of times the initialization body was started
  azureFailure,      \* how the object store failed to initialize, or None
  yielded,           \* instances that getCache() has resolved to so far
  req,               \* per caller: the call in progress
  hotFormat,         \* the format the callers of this run contend on
  lastSet,           \* the set() whose step was the latest step, or NoSet
  nextFill,          \* the index of the next unused fill key
  setLog,            \* the set() calls so far, while they are of distinct keys
  paramObjects,      \* the parameter objects given to generateCacheKey
  cacheKeys,         \* the keys generateCacheKey has returned for them so far
  hourly,            \* data.hourly: the series given to the chart builders
  daily,             \* what aggregateHourlyToDaily(data) has returned
  grid,              \* the grid buildYearHeatmapSvg(data) has built
  http,              \* per caller: the request its handler is serving
  writeBack,         \* the write-backs and the latest request of one handler
  origin             \* the [k, v] given to set() or read from the backend

vars == <<MEMORY_CACHE, files, blobs, STORAGE_TYPE, azureConfigured,
          cacheInstance, cacheInitPromise, initPc, containerClient,
          initCompleted, initStarts, azureFailure, yielded, req, hotFormat,
          lastSet, nextFill, setLog, paramObjects, cacheKeys, hourly, daily,
          grid, http, writeBack, origin>>

envVars == <<STORAGE_TYPE, azureConfigured, hotFormat>>
initVars == <<cacheInstance, cacheInitPromise, initPc, containerClient,
              initCompleted, initStarts, azureFailure>>
fillVars == <<nextFill, setLog>>
cacheVars == <<MEMORY_CACHE, files, blobs, envVars, initVars, yielded, req,
               lastSet>>
keyVars == <<paramObjects, cacheKeys>>
chartVars == <<hourly, daily, grid>>
serveVars == <<http, writeBack>>
\* what the specifications of the cache leave alone
restVars == <<keyVars, chartVars, serveVars, origin>>
\* what the specifications of the pure functions leave alone
stateVars == <<cacheVars, fillVars, serveVars, origin>>

IdleReq == [pc |-> "idle", cache |-> None, op |-> None, key |-> NoKey,
            format |-> None, data |-> NoData, ret |-> Null, threw |-> FALSE,
            io |-> None]

\* ok: every write of the Memory Tier so far was a set() of a key not set
\* before; keys: these calls in order, each with w, its durable write succeeded;
\* hit: a get() hit the Memory Tier while it was full; probe: the caller of the
\* get() of the first key that directly followed these calls
NoLog == [ok |-> TRUE, keys |-> <<>>, hit |-> FALSE, probe |-> 0]

Spoiled == [ok |-> FALSE, keys |-> <<>>, hit |-> FALSE, probe |-> 0]

\* r: the caller of the set(); get: the caller of the get() that followed it
NoSet == [r |-> 0, get |-> 0, key |-> NoKey, format |-> None, data |-> NoData]

\* nothing built yet. Once done: threw, the builder has thrown; else rows, the
\* records or grid rows it has computed, cellSize, the cell size it has used,
\* and width and height, the attributes of the svg element
NotDone == [done |-> FALSE, rows |-> <<>>, threw |-> FALSE, cellSize |-> 0,
            width |-> 0, height |-> 0]

\* no request has arrived
IdleHttp == [stage |-> "idle", key |-> NoKey, format |-> None,
             response |-> None, cause |-> None, responses |-> 0,
             year |-> [given |-> FALSE, s |-> <<>>],
             cell_size |-> [given |-> FALSE, s |-> <<>>],
             cellSize |-> Undefined]

\* level: "no" until a handler has called cache.set for the contended key,
\* then "memory", and "durable" once a durable write of it has succeeded;
\* for the latest request for that key: after, the level when it arrived; mem,
\* whether the key was in the Memory Tier when it called cache.get; io, how
\* that call ended
NoWriteBack == [level |-> "no", after |-> None, mem |-> FALSE, io |-> None]

NoRequests == http = [r \in Reqs |-> IdleHttp] /\ writeBack = NoWriteBack

NoKeyInput == paramObjects = <<>> /\ cacheKeys = <<>>

NoChartInput == hourly = <<>> /\ daily = NotDone /\ grid = NotDone

InitCache ==
  /\ MEMORY_CACHE = <<>>
  /\ hotFormat \in Formats
  /\ files \in {NoFiles} \cup
         {WriteFile(NoFiles, GetCachePath(HotKey, hotFormat), b) : b \in Bytes}
  /\ blobs = files
  /\ STORAGE_TYPE \in {"filesystem", "azure-blob"}
  /\ azureConfigured \in BOOLEAN
  /\ cacheInstance = None
  /\ cacheInitPromise = None
  /\ initPc = "none"
  /\ containerClient = FALSE
  /\ initCompleted = {}
  /\ initStarts = 0
  /\ azureFailure = None
  /\ yielded = {}
  /\ req = [r \in Reqs |-> IdleReq]
  /\ lastSet = NoSet
  /\ nextFill = 1
  /\ setLog = NoLog

Init == InitCache /\ NoKeyInput /\ NoChartInput /\ NoRequests /\ origin = {}

\* ------------------------------------------------------------- getCache
\* The promise of the initialization body settles: every caller awaiting it
\* resumes with the instance the body returns.
ResolveWaiters(inst) ==
  [r \in Reqs |->
     IF req[r].pc = "await_init"
       THEN [req[r] EXCEPT !.pc = "ready", !.cache = inst]
       ELSE req[r]]

\* a getCache() without its fast path
NeverAlreadyInitialized == FALSE

\* if (cacheInstance)
AlreadyInitialized == cacheInstance # None

\* if (cacheInitPromise)
InitInProgress == cacheInitPromise # None

\* the initialization body of getCache(), up to its first await
StartInit ==
  /\ cacheInitPromise' = "pending"
  /\ initStarts' = initStarts + 1
  /\ IF STORAGE_TYPE = "azure-blob"
       THEN IF azureConfigured
              THEN /\ cacheInstance' = "azure"
                   /\ initPc' = "az_import"
                   /\ azureFailure' = azureFailure
              ELSE \* the constructor throws: fall back
                   /\ cacheInstance' = "fs"
                   /\ initPc' = "fs_mkdir"
                   /\ azureFailure' = "credentials"
       ELSE /\ cacheInstance' = "fs"
            /\ initPc' = "fs_mkdir"
            /\ azureFailure' = azureFailure
  /\ UNCHANGED <<containerClient, initCompleted>>

\* getCache(), up to its first suspension point
GetCacheCall(r) ==
  /\ req[r].pc = "idle"
  /\ IF AlreadyInitialized
       THEN \* already initialized: return immediately
            /\ req' = [req EXCEPT ![r].pc = "ready", ![r].cache = cacheInstance]
            /\ yielded' = yielded \cup {cacheInstance}
            /\ UNCHANGED initVars
       ELSE IF InitInProgress
         THEN \* initialization in progress: wait for it
              /\ req' = [req EXCEPT ![r].pc = "await_init"]
              /\ UNCHANGED <<yielded, initVars>>
         ELSE \* start initialization
              /\ req' = [req EXCEPT ![r].pc = "await_init"]
              /\ StartInit
              /\ UNCHANGED yielded
  /\ lastSet' = NoSet
  /\ UNCHANGED <<MEMORY_CACHE, files, blobs, envVars>>

\* the end of the initialization body: clear the promise, return cacheInstance
FinishInit(inst) ==
  /\ initCompleted' = initCompleted \cup {inst}
  /\ cacheInitPromise' = None
  /\ initPc' = "done"
  /\ req' = ResolveWaiters(inst)
  /\ yielded' = yielded \cup {inst}

\* AzureBlobCache.init(): the two imports and the construction of the clients
AzureInitClient ==
  /\ initPc = "az_import"
  /\ \E outcome \in {"ok", "import", "client"} :
       IF outcome = "ok"
         THEN /\ containerClient' = TRUE
              /\ initPc' = "az_create"
              /\ UNCHANGED <<cacheInstance, azureFailure>>
         ELSE \* init() throws: getCache falls back to the filesystem
              /\ cacheInstance' = "fs"
              /\ initPc' = "fs_mkdir"
              /\ azureFailure' = outcome
              /\ UNCHANGED containerClient
  /\ lastSet' = NoSet
  /\ UNCHANGED <<MEMORY_CACHE, files, blobs, envVars, fillVars, req, yielded,
                 cacheInitPromise, initCompleted, initStarts>>

\* AzureBlobCache.init(): createIfNotExists() settles; its error is caught
AzureCreateContainer ==
  /\ initPc = "az_create"
  /\ \E outcome \in {"ok", "unreachable"} :
       azureFailure' = IF outcome = "ok" THEN azureFailure ELSE outcome
  /\ FinishInit("azure")
  /\ lastSet' = NoSet
  /\ UNCHANGED <<MEMORY_CACHE, files, blobs, envVars, fillVars, cacheInstance,
                 containerClient, initStarts>>

\* a FileSystemCache.init() that lets the error of mkdir out: the promise of
\* the initialization body rejects and is never cleared
FsMkdirRejects ==
  /\ initPc = "fs_mkdir"
  /\ \E outcome \in {"ok", "error"} :
       IF outcome = "ok"
         THEN FinishInit("fs")
         ELSE /\ initPc' = "rejected"
              /\ UNCHANGED <<initCompleted, cacheInitPromise, req, yielded>>
  /\ lastSet' = NoSet
  /\ UNCHANGED <<MEMORY_CACHE, files, blobs, envVars, fillVars, cacheInstance,
                 containerClient, initStarts, azureFailure>>

\* FileSystemCache.init(): mkdir settles; its error is caught and logged
FsMkdir ==
  /\ initPc = "fs_mkdir"
  /\ \E outcome \in {"ok", "error"} : FinishInit("fs")
  /\ lastSet' = NoSet
  /\ UNCHANGED <<MEMORY_CACHE, files, blobs, envVars, fillVars, cacheInstance,
                 containerClient, initStarts, azureFailure>>

\* ------------------------------------------------------------ get / set
\* lastSet survives only the steps of the set() that it records and of the
\* get() that directly followed it
KeepLastSet(r) ==
  lastSet' = IF lastSet.r = r \/ lastSet.get = r THEN lastSet ELSE NoSet

\* a get(key, format) that directly follows the recorded set() is recorded too
FollowLastSet(r, key, format) ==
  lastSet' = IF lastSet.r # 0 /\ lastSet.get = 0
                /\ lastSet.key = key /\ lastSet.format = format
               THEN [lastSet EXCEPT !.get = r]
               ELSE NoSet

Returned(q, ret, io) == [q EXCEPT !.pc = "returned", !.ret = ret, !.io = io]

\* a backend whose get() and set() use the container client outside their try
TypeErrorThrown(q, ret) == [Returned(q, ret, "error") EXCEPT !.threw = TRUE]

\* this.containerClient is undefined: the TypeError is thrown inside the try
\* block of get() or set() and caught there
TypeErrorCaught(q, ret) == Returned(q, ret, "error")

\* a get() that goes to the Durable Backend whatever the Memory Tier holds
MemoryHitNever(memoryKey) == FALSE

\* if (MEMORY_CACHE.has(memoryKey))
MemoryHit(memoryKey) == MapHas(MEMORY_CACHE, memoryKey)

\* a get() that promotes the entry it hits to most recent (true LRU)
GetCallPromotes(r, key, format) ==
  /\ req[r].pc = "ready"
  /\ LET memoryKey == MemoryKey(key, format)
         q == [req[r] EXCEPT !.op = "get", !.key = key, !.format = format]
     IN  IF MapHas(MEMORY_CACHE, memoryKey)
           THEN /\ req' = [req EXCEPT ![r] =
                             Returned(q, MapGet(MEMORY_CACHE, memoryKey), "memory")]
                /\ MEMORY_CACHE' =
                     Append(MapDelete(MEMORY_CACHE, memoryKey),
                            [k |-> memoryKey, v |-> MapGet(MEMORY_CACHE, memoryKey)])
           ELSE /\ UNCHANGED MEMORY_CACHE
                /\ IF req[r].cache = "fs"
                     THEN req' = [req EXCEPT ![r] = [q EXCEPT !.pc = "fs_read"]]
                     ELSE IF containerClient
                       THEN req' = [req EXCEPT ![r] = [q EXCEPT !.pc = "az_exists"]]
                       ELSE req' = [req EXCEPT ![r] = Returned(q, Null, "error")]
  /\ FollowLastSet(r, key, format)
  /\ UNCHANGED <<files, blobs, envVars, initVars, yielded>>

\* get(key, format) of either backend, up to its first suspension point
GetCall(r, key, format) ==
  /\ req[r].pc = "ready"
  /\ LET memoryKey == MemoryKey(key, format)
         q == [req[r] EXCEPT !.op = "get", !.key = key, !.format = format]
     IN  IF MemoryHit(memoryKey)
           THEN req' = [req EXCEPT ![r] =
                          Returned(q, MapGet(MEMORY_CACHE, memoryKey), "memory")]
           ELSE IF req[r].cache = "fs"
             THEN req' = [req EXCEPT ![r] = [q EXCEPT !.pc = "fs_read"]]
             ELSE IF containerClient
               THEN req' = [req EXCEPT ![r] = [q EXCEPT !.pc = "az_exists"]]
               ELSE req' = [req EXCEPT ![r] = TypeErrorCaught(q, Null)]
  /\ FollowLastSet(r, key, format)
  /\ UNCHANGED <<MEMORY_CACHE, files, blobs, envVars, initVars, yielded>>

\* a get() that remembers a miss of the file in the Memory Tier
FsReadDoneCachesMiss(r) ==
  /\ req[r].pc = "fs_read"
  /\ LET filePath == GetCachePath(req[r].key, req[r].format)
         memoryKey == MemoryKey(req[r].key, req[r].format)
     IN  \E outcome \in {"settled", "error"} :
           IF outcome = "error"
             THEN /\ req' = [req EXCEPT ![r] =
                               [Returned(req[r], Null, "error") EXCEPT !.threw = TRUE]]
                  /\ UNCHANGED MEMORY_CACHE
             ELSE IF HasFile(files, filePath)
               THEN /\ MEMORY_CACHE' =
                         MemoryStore(MEMORY_CACHE, memoryKey, files[filePath])
                    /\ req' = [req EXCEPT ![r] =
                                 Returned(req[r], files[filePath], "read")]
               ELSE /\ req' = [req EXCEPT ![r] = Returned(req[r], Null, "absent")]
                    /\ MEMORY_CACHE' = MemoryStore(MEMORY_CACHE, memoryKey, Null)
  /\ KeepLastSet(r)
  /\ UNCHANGED <<files, blobs, envVars, initVars, yielded>>

\* FileSystemCache.get: fs.readFile settles
FsReadDone(r) ==
  /\ req[r].pc = "fs_read"
  /\ LET filePath == GetCachePath(req[r].key, req[r].format)
         memoryKey == MemoryKey(req[r].key, req[r].format)
     IN  \E outcome \in {"settled", "error"} :
           IF outcome = "error"
             THEN \* err.code is not ENOENT: rethrown
                  /\ req' = [req EXCEPT ![r] =
                               [Returned(req[r], Null, "error") EXCEPT !.threw = TRUE]]
                  /\ UNCHANGED MEMORY_CACHE
             ELSE IF HasFile(files, filePath)
               THEN /\ MEMORY_CACHE' =
                         MemoryStore(MEMORY_CACHE, memoryKey, files[filePath])
                    /\ req' = [req EXCEPT ![r] =
                                 Returned(req[r], files[filePath], "read")]
               ELSE \* ENOENT
                    /\ req' = [req EXCEPT ![r] = Returned(req[r], Null, "absent")]
                    /\ UNCHANGED MEMORY_CACHE
  /\ KeepLastSet(r)
  /\ UNCHANGED <<files, blobs, envVars, initVars, yielded>>

\* AzureBlobCache.get: blobClient.exists() settles
AzExistsDone(r) ==
  /\ req[r].pc = "az_exists"
  /\ LET blobName == GetCachePath(req[r].key, req[r].format)
     IN  \E outcome \in {"settled", "error"} :
           IF outcome = "error"
             THEN req' = [req EXCEPT ![r] = Returned(req[r], Null, "error")]
             ELSE IF HasFile(blobs, blobName)
               THEN req' = [req EXCEPT ![r].pc = "az_download"]
               ELSE req' = [req EXCEPT ![r] = Returned(req[r], Null, "absent")]
  /\ KeepLastSet(r)
  /\ UNCHANGED <<MEMORY_CACHE, files, blobs, envVars, initVars, yielded>>

\* AzureBlobCache.get: the download and its stream have been read
AzDownloadDone(r) ==
  /\ req[r].pc = "az_download"
  /\ LET blobName == GetCachePath(req[r].key, req[r].format)
         memoryKey == MemoryKey(req[r].key, req[r].format)
     IN  \E outcome \in {"settled", "error"} :
           IF outcome = "settled" /\ HasFile(blobs, blobName)
             THEN /\ MEMORY_CACHE' =
                       MemoryStore(MEMORY_CACHE, memoryKey, blobs[blobName])
                  /\ req' = [req EXCEPT ![r] =
                               Returned(req[r], blobs[blobName], "read")]
             ELSE /\ req' = [req EXCEPT ![r] = Returned(req[r], Null, "error")]
                  /\ UNCHANGED MEMORY_CACHE
  /\ KeepLastSet(r)
  /\ UNCHANGED <<files, blobs, envVars, initVars, yielded>>

\* set(key, format, data) of either backend, up to its first suspension point
SetCall(r, key, format, data) ==
  /\ req[r].pc = "ready"
  /\ LET memoryKey == MemoryKey(key, format)
         q == [req[r] EXCEPT !.op = "set", !.key = key, !.format = format,
                             !.data = data]
     IN  /\ MEMORY_CACHE' = MemoryStore(MEMORY_CACHE, memoryKey, data)
         /\ IF req[r].cache = "fs"
              THEN req' = [req EXCEPT ![r] = [q EXCEPT !.pc = "fs_write"]]
              ELSE IF containerClient
                THEN req' = [req EXCEPT ![r] = [q EXCEPT !.pc = "az_upload"]]
                ELSE req' = [req EXCEPT ![r] = TypeErrorCaught(q, Undefined)]
  /\ lastSet' = [r |-> r, get |-> 0, key |-> key, format |-> format,
                 data |-> data]
  /\ UNCHANGED <<files, blobs, envVars, initVars, yielded>>

\* a set() that takes its Memory Tier entry back when the write fails
FsWriteDoneRollsBack(r, outcome) ==
  /\ req[r].pc = "fs_write"
  /\ IF outcome = "ok"
       THEN /\ files' = WriteFile(files,
                          GetCachePath(req[r].key, req[r].format), req[r].data)
            /\ req' = [req EXCEPT ![r] = Returned(req[r], Undefined, "written")]
            /\ UNCHANGED MEMORY_CACHE
       ELSE /\ req' = [req EXCEPT ![r] = Returned(req[r], Undefined, "error")]
            /\ MEMORY_CACHE' = MapDelete(MEMORY_CACHE,
                                  MemoryKey(req[r].key, req[r].format))
            /\ UNCHANGED files
  /\ KeepLastSet(r)
  /\ UNCHANGED <<blobs, envVars, initVars, yielded>>

\* FileSystemCache.set: fs.writeFile settles; its error is caught
FsWriteDone(r, outcome) ==
  /\ req[r].pc = "fs_write"
  /\ IF outcome = "ok"
       THEN /\ files' = WriteFile(files,
                          GetCachePath(req[r].key, req[r].format), req[r].data)
            /\ req' = [req EXCEPT ![r] = Returned(req[r], Undefined, "written")]
       ELSE /\ req' = [req EXCEPT ![r] = Returned(req[r], Undefined, "error")]
            /\ UNCHANGED files
  /\ KeepLastSet(r)
  /\ UNCHANGED <<MEMORY_CACHE, blobs, envVars, initVars, yielded>>

\* AzureBlobCache.set: uploadData settles; its error is caught
AzUploadDone(r, outcome) ==
  /\ req[r].pc = "az_upload"
  /\ IF outcome = "ok"
       THEN /\ blobs' = WriteFile(blobs,
                          GetCachePath(req[r].key, req[r].format), req[r].data)
            /\ req' = [req EXCEPT ![r] = Returned(req[r], Undefined, "written")]
       ELSE /\ req' = [req EXCEPT ![r] = Returned(req[r], Undefined, "error")]
            /\ UNCHANGED blobs
  /\ KeepLastSet(r)
  /\ UNCHANGED <<MEMORY_CACHE, files, envVars, initVars, yielded>>

\* the caller has its result and goes on to its next call on the same backend
Continue(r) ==
  /\ req[r].pc = "returned"
  /\ ~req[r].threw
  /\ req' = [req EXCEPT ![r] = [IdleReq EXCEPT !.pc = "ready",
                                               !.cache = req[r].cache]]
  /\ KeepLastSet(r)
  /\ UNCHANGED <<MEMORY_CACHE, files, blobs, envVars, initVars, yielded>>

\* the caller is done with the backend it obtained (the request has ended)
Finish(r) ==
  /\ req[r].pc = "returned"
  /\ req' = [req EXCEPT ![r] = IdleReq]
  /\ lastSet' = NoSet
  /\ UNCHANGED <<MEMORY_CACHE, files, blobs, envVars, initVars, yielded>>

\* ------------------------------------------------------- specifications
\* Callers contend on one key (the format is drawn by Init); every durable
\* operation may fail.
Next ==
  \/ \E r \in Reqs : GetCacheCall(r) /\ UNCHANGED <<fillVars, restVars>>
  \/ AzureInitClient /\ UNCHANGED <<fillVars, restVars>>
  \/ AzureCreateContainer /\ UNCHANGED <<fillVars, restVars>>
  \/ FsMkdir /\ UNCHANGED <<fillVars, restVars>>
  \/ \E r \in Reqs :
       GetCall(r, HotKey, hotFormat) /\ UNCHANGED <<fillVars, restVars>>
  \/ \E r \in Reqs : FsReadDone(r) /\ UNCHANGED <<fillVars, restVars>>
  \/ \E r \in Reqs : AzExistsDone(r) /\ UNCHANGED <<fillVars, restVars>>
  \/ \E r \in Reqs : AzDownloadDone(r) /\ UNCHANGED <<fillVars, restVars>>
  \/ \E r \in Reqs, data \in Bytes :
       SetCall(r, HotKey, hotFormat, data) /\ UNCHANGED <<fillVars, restVars>>
  \/ \E r \in Reqs, outcome \in {"ok", "error"} :
       FsWriteDone(r, outcome) /\ UNCHANGED <<fillVars, restVars>>
  \/ \E r \in Reqs, outcome \in {"ok", "error"} :
       AzUploadDone(r, outcome) /\ UNCHANGED <<fillVars, restVars>>
  \/ \E r \in Reqs : Continue(r) /\ UNCHANGED <<fillVars, restVars>>
  \/ \E r \in Reqs : Finish(r) /\ UNCHANGED <<fillVars, restVars>>

Spec == Init /\ [][Next]_vars

\* The imports, the construction of the clients, createIfNotExists() and
\* mkdir() settle: a step of the initialization body that can be taken is
\* taken in the end.
InitStep ==
  /\ \/ AzureInitClient
     \/ AzureCreateContainer
     \/ FsMkdir
  /\ UNCHANGED <<fillVars, restVars>>

\* Callers go through getCache() and read the contended key, again and again.
NextInit ==
  \/ \E r \in Reqs : GetCacheCall(r) /\ UNCHANGED <<fillVars, restVars>>
  \/ InitStep
  \/ \E r \in Reqs :
       GetCall(r, HotKey, hotFormat) /\ UNCHANGED <<fillVars, restVars>>
  \/ \E r \in Reqs : FsReadDone(r) /\ UNCHANGED <<fillVars, restVars>>
  \/ \E r \in Reqs : AzExistsDone(r) /\ UNCHANGED <<fillVars, restVars>>
  \/ \E r \in Reqs : AzDownloadDone(r) /\ UNCHANGED <<fillVars, restVars>>
  \/ \E r \in Reqs : Finish(r) /\ UNCHANGED <<fillVars, restVars>>

SpecLive == Init /\ [][NextInit]_vars /\ WF_vars(InitStep)

\* One caller fills the Memory Tier: it sets the contended key and the fill
\* keys FillKey(1), FillKey(2), ... in this order, each call awaited before
\* the next. The contended key is used before the fill and from the moment
\* the tier is about to be full; the durable writes of the fill keys succeed.
Filler == 1

\* fingerprint 1 as svg, fingerprint 1 as png, fingerprint 2 as svg, ...
FillKey(n) == [key |-> (n + 1) \div 2,
               format |-> IF n % 2 = 1 THEN "svg" ELSE "png"]

FillData(n) == 1 + (n % NumBytes)

HotAllowed == nextFill = 1 \/ nextFill >= MAX_MEMORY_CACHE_SIZE

LogIndex(key, format) ==
  {i \in 1..Len(setLog.keys) :
     setLog.keys[i].key = key /\ setLog.keys[i].format = format}

LogSet(key, format, data) ==
  setLog' =
    IF setLog.ok /\ setLog.probe = 0 /\ LogIndex(key, format) = {}
      THEN [setLog EXCEPT !.keys = Append(@, [key |-> key, format |-> format,
                                               data |-> data, w |-> FALSE])]
      ELSE Spoiled

LogGet(r, key, format) ==
  setLog' =
    IF ~setLog.ok \/ setLog.probe # 0
      THEN Spoiled
      ELSE IF Len(setLog.keys) = MAX_MEMORY_CACHE_SIZE + 1
                /\ LogIndex(key, format) = {1}
        THEN [setLog EXCEPT !.probe = r]
        ELSE IF MapHas(MEMORY_CACHE, MemoryKey(key, format))
                  /\ Len(MEMORY_CACHE) = MAX_MEMORY_CACHE_SIZE
          THEN [setLog EXCEPT !.hit = TRUE]
          ELSE setLog

\* a read that writes the Memory Tier ends the run of set() calls, unless it
\* is the read of the probe
LogRead(r) ==
  setLog' = IF MEMORY_CACHE' = MEMORY_CACHE \/ setLog.probe = r
              THEN setLog
              ELSE Spoiled

LogWrite(r, outcome) ==
  setLog' =
    IF outcome = "ok"
      THEN [setLog EXCEPT !.keys =
              [i \in 1..Len(@) |->
                 IF i \in LogIndex(req[r].key, req[r].format)
                   THEN [@[i] EXCEPT !.w = TRUE]
                   ELSE @[i]]]
      ELSE setLog

FillInit ==
  \/ GetCacheCall(Filler)
  \/ AzureInitClient
  \/ AzureCreateContainer
  \/ FsMkdir

FillSet ==
  /\ nextFill <= MaxFill
  /\ LET k == FillKey(nextFill)
     IN  /\ SetCall(Filler, k.key, k.format, FillData(nextFill))
         /\ LogSet(k.key, k.format, FillData(nextFill))
  /\ nextFill' = nextFill + 1

FillGet ==
  /\ nextFill > MAX_MEMORY_CACHE_SIZE
  /\ LET k == FillKey(1)
     IN  /\ GetCall(Filler, k.key, k.format)
         /\ LogGet(Filler, k.key, k.format)
  /\ UNCHANGED nextFill

HotSet ==
  /\ HotAllowed
  /\ \E data \in Bytes :
       /\ SetCall(Filler, HotKey, hotFormat, data)
       /\ LogSet(HotKey, hotFormat, data)
  /\ UNCHANGED nextFill

HotGet ==
  /\ HotAllowed
  /\ GetCall(Filler, HotKey, hotFormat)
  /\ LogGet(Filler, HotKey, hotFormat)
  /\ UNCHANGED nextFill

FillReadDone ==
  /\ \/ FsReadDone(Filler)
     \/ AzExistsDone(Filler)
     \/ AzDownloadDone(Filler)
  /\ LogRead(Filler)
  /\ UNCHANGED nextFill

FillWriteDone ==
  /\ \E outcome \in {"ok", "error"} :
       /\ outcome = "ok" \/ req[Filler].key = HotKey
       /\ \/ FsWriteDone(Filler, outcome)
          \/ AzUploadDone(Filler, outcome)
       /\ LogWrite(Filler, outcome)
  /\ UNCHANGED nextFill

NextFill ==
  \/ FillInit /\ UNCHANGED <<fillVars, restVars>>
  \/ FillSet /\ UNCHANGED restVars
  \/ FillGet /\ UNCHANGED restVars
  \/ HotSet /\ UNCHANGED restVars
  \/ HotGet /\ UNCHANGED restVars
  \/ FillReadDone /\ UNCHANGED restVars
  \/ FillWriteDone /\ UNCHANGED restVars
  \/ Continue(Filler) /\ UNCHANGED <<fillVars, restVars>>

\* the contended key is a png; the fill keys are svg and png in turn
InitFill == Init /\ hotFormat = "png"

SpecFill == InitFill /\ [][NextFill]_vars

\* Several callers contend on one key while the Memory Tier is about to be
\* full. The run starts in a state that the filling caller of SpecFill leaves:
\* the backend is initialized and the first n fill keys have been set, their
\* durable writes done; the other callers have got the backend from getCache().
WarmEntries(n) ==
  [i \in 1..n |-> [k |-> MemoryKey(FillKey(i).key, FillKey(i).format),
                   v |-> FillData(i)]]

\* dir after the durable writes of the first n fill keys
WarmFiles(dir, n) ==
  LET FillPath(i) == GetCachePath(FillKey(i).key, FillKey(i).format)
  IN  [p \in DOMAIN dir \cup {FillPath(i) : i \in 1..n} |->
         IF \E i \in 1..n : FillPath(i) = p
           THEN FillData(CHOOSE i \in 1..n : FillPath(i) = p)
           ELSE dir[p]]

WarmLog(n) ==
  [NoLog EXCEPT !.keys = [i \in 1..n |->
     [key |-> FillKey(i).key, format |-> FillKey(i).format,
      data |-> FillData(i), w |-> TRUE]]]

\* the state after n fill keys on backend inst, the durable store having
\* held dir at the start (the callers other than Filler are left open)
Warm(n, inst, dir) ==
  /\ MEMORY_CACHE = WarmEntries(n)
  /\ hotFormat = "png"
  /\ files = IF inst = "fs" THEN WarmFiles(dir, n) ELSE dir
  /\ blobs = IF inst = "azure" THEN WarmFiles(dir, n) ELSE dir
  /\ STORAGE_TYPE = IF inst = "fs" THEN "filesystem" ELSE "azure-blob"
  /\ azureConfigured = (inst = "azure")
  /\ cacheInstance = inst
  /\ cacheInitPromise = None
  /\ initPc = "done"
  /\ containerClient = (inst = "azure")
  /\ initCompleted = {inst}
  /\ initStarts = 1
  /\ azureFailure = None
  /\ yielded = {inst}
  /\ req = [r \in Reqs |-> IF r = Filler THEN [IdleReq EXCEPT !.pc = "ready",
                                                              !.cache = inst]
                           ELSE req[r]]
  /\ lastSet = NoSet
  /\ nextFill = n + 1
  /\ setLog = WarmLog(n)

InitWarm ==
  /\ \E n \in {MAX_MEMORY_CACHE_SIZE - 1, MAX_MEMORY_CACHE_SIZE},
        inst \in {"fs", "azure"},
        dir \in {NoFiles} \cup
                {WriteFile(NoFiles, GetCachePath(HotKey, "png"), b) : b \in Bytes} :
       /\ req = [r \in Reqs |-> [IdleReq EXCEPT !.pc = "ready", !.cache = inst]]
       /\ Warm(n, inst, dir)
       /\ origin = {WarmEntries(n)[i] : i \in 1..n}
  /\ NoKeyInput
  /\ NoChartInput
  /\ NoRequests

\* the bytes a read of the Durable Backend puts into the Memory Tier
OriginRead(r) ==
  LET dir == IF req[r].cache = "fs" THEN files ELSE blobs
      p == GetCachePath(req[r].key, req[r].format)
  IN  origin' = IF req'[r].io = "read"
                  THEN origin \cup {[k |-> MemoryKey(req[r].key, req[r].format),
                                      v |-> dir[p]]}
                  ELSE origin

OriginSet(key, format, bytes) ==
  origin' = origin \cup {[k |-> MemoryKey(key, format), v |-> bytes]}

WarmVars == <<fillVars, keyVars, chartVars, serveVars>>

NextWarm ==
  \/ \E r \in Reqs :
       GetCall(r, HotKey, hotFormat) /\ UNCHANGED <<WarmVars, origin>>
  \/ \E r \in Reqs : FsReadDone(r) /\ OriginRead(r) /\ UNCHANGED WarmVars
  \/ \E r \in Reqs : AzExistsDone(r) /\ UNCHANGED <<WarmVars, origin>>
  \/ \E r \in Reqs : AzDownloadDone(r) /\ OriginRead(r) /\ UNCHANGED WarmVars
  \/ \E r \in Reqs, bytes \in Bytes :
       /\ SetCall(r, HotKey, hotFormat, bytes)
       /\ OriginSet(HotKey, hotFormat, bytes)
       /\ UNCHANGED WarmVars
  \/ \E r \in Reqs, outcome \in {"ok", "error"} :
       FsWriteDone(r, outcome) /\ UNCHANGED <<WarmVars, origin>>
  \/ \E r \in Reqs, outcome \in {"ok", "error"} :
       AzUploadDone(r, outcome) /\ UNCHANGED <<WarmVars, origin>>
  \/ \E r \in Reqs : Continue(r) /\ UNCHANGED <<WarmVars, origin>>

SpecWarm == InitWarm /\ [][NextWarm]_vars

\* ------------------------------------------------------ request handlers
\* GET /api/weather-image. http[r] is the request that handler r is serving:
\* stage is where the handler is suspended, response and cause are what was
\* sent last and why, responses is the number of responses sent; year and
\* cell_size are the query parameters of a year heatmap request and cellSize
\* is what the handler has parsed cell_size to. Whether the query has a city or lat and lon (located) is
\* drawn when the handler looks at it, after the cache miss.

\* a handler that takes every result of cache.get for a miss
CachedNever(ret) == FALSE

\* if (cached)
Cached(ret) == ret # Null

\* getCache().then(...) of the module body, which runs before any request
StartupGetCache ==
  /\ initStarts = 0
  /\ StartInit
  /\ lastSet' = NoSet
  /\ UNCHANGED <<MEMORY_CACHE, files, blobs, envVars, yielded, req, http>>

\* a request arrives: the handler builds the key and calls getCache()
Receive(r, key, format) ==
  /\ http[r].stage = "idle"
  /\ initStarts > 0
  /\ GetCacheCall(r)
  /\ http' = [http EXCEPT ![r] =
                [IdleHttp EXCEPT !.stage = "getCache", !.key = key,
                                 !.format = format]]

\* const cached = await cache.get(cacheKey, format): the call
CacheGet(r) ==
  /\ http[r].stage = "getCache"
  /\ GetCall(r, http[r].key, http[r].format)
  /\ http' = [http EXCEPT ![r].stage = "get"]

Respond(h, response, cause) ==
  [h EXCEPT !.stage = "responded", !.response = response, !.cause = cause,
            !.responses = @ + 1]

\* cache.get has settled: the thrown error goes to the catch block, bytes are
\* sent, and a miss goes on to the upstream fetch or to the 400 response
AfterGet(r, located) ==
  /\ http[r].stage = "get"
  /\ req[r].pc = "returned"
  /\ IF req[r].threw
       THEN /\ http' = [http EXCEPT ![r] = Respond(http[r], "500", "cache")]
            /\ UNCHANGED cacheVars
       ELSE IF Cached(req[r].ret)
         THEN /\ http' = [http EXCEPT ![r] = Respond(http[r], "cached", None)]
              /\ UNCHANGED cacheVars
         ELSE IF ~located
           THEN /\ http' = [http EXCEPT ![r] = Respond(http[r], "400", None)]
                /\ UNCHANGED cacheVars
           ELSE /\ http' = [http EXCEPT ![r].stage = "fetch"]
                /\ Continue(r)

\* a handler that sends its response when the set() has settled
WriteBackThenSend(r, bytes) ==
  /\ SetCall(r, http[r].key, http[r].format, bytes)
  /\ http' = [http EXCEPT ![r].stage = "writing"]

\* cache.set(cacheKey, format, bytes).catch(...) is called and the response
\* is sent, in either order, with no await between the two
WriteBackAndSend(r, bytes) ==
  /\ SetCall(r, http[r].key, http[r].format, bytes)
  /\ http' = [http EXCEPT ![r] = Respond(http[r], "rendered", None)]

\* getWeatherByCity / getWeatherByCoords has settled: it threw ("error"), or
\* buildWeatherChartSvg throws on a response without hourly data ("empty"),
\* or the svg is built: it is sent, or given to sharp
UpstreamDone(r, outcome, bytes) ==
  /\ http[r].stage = "fetch"
  /\ IF outcome = "error"
       THEN /\ http' = [http EXCEPT ![r] = Respond(http[r], "500", "upstream")]
            /\ UNCHANGED cacheVars
       ELSE IF outcome = "empty"
         THEN /\ http' = [http EXCEPT ![r] = Respond(http[r], "500", "render")]
              /\ UNCHANGED cacheVars
         ELSE IF http[r].format = "svg"
           THEN WriteBackAndSend(r, bytes)
           ELSE /\ http' = [http EXCEPT ![r].stage = "encode"]
                /\ UNCHANGED cacheVars

\* a handler that stores what it has whether or not the encoding succeeded
EncodeDoneStoresAnyway(r, outcome, bytes) ==
  /\ http[r].stage = "encode"
  /\ SetCall(r, http[r].key, http[r].format, bytes)
  /\ IF outcome = "ok"
       THEN http' = [http EXCEPT ![r] = Respond(http[r], "rendered", None)]
       ELSE http' = [http EXCEPT ![r] = Respond(http[r], "500", "encode")]

\* sharp(...).toBuffer() has settled
EncodeDone(r, outcome, bytes) ==
  /\ http[r].stage = "encode"
  /\ IF outcome = "ok"
       THEN WriteBackAndSend(r, bytes)
       ELSE /\ http' = [http EXCEPT ![r] = Respond(http[r], "500", "encode")]
            /\ UNCHANGED cacheVars

\* a handler that answers 500 when the durable write of its set() fails
WriteBackDoneReports(r, outcome) ==
  /\ \/ FsWriteDone(r, outcome)
     \/ AzUploadDone(r, outcome)
  /\ http' = IF outcome = "ok" THEN http
             ELSE [http EXCEPT ![r] = Respond(http[r], "500", "cache")]

\* the durable write of a handler's set() has settled: its error is caught
\* inside set(), and .catch() would only log a rejection
WriteBackDone(r, outcome) ==
  /\ \/ FsWriteDone(r, outcome)
     \/ AzUploadDone(r, outcome)
  /\ UNCHANGED http

\* the durable read of a handler's get() has made a step
ReadStep(r) ==
  /\ \/ FsReadDone(r)
     \/ AzExistsDone(r)
     \/ AzDownloadDone(r)
  /\ UNCHANGED http

\* the response is sent and no cache call of the handler is pending
EndRequest(r) ==
  /\ http[r].stage = "responded"
  /\ req[r].pc \in {"ready", "returned"}
  /\ http' = [http EXCEPT ![r] = IdleHttp]
  /\ req' = [req EXCEPT ![r] = IdleReq]
  /\ lastSet' = NoSet
  /\ UNCHANGED <<MEMORY_CACHE, files, blobs, envVars, initVars, yielded>>

ServeVars == <<fillVars, keyVars, chartVars, origin, writeBack>>

\* Handlers serve requests for one fingerprint concurrently; every upstream,
\* encoding and durable operation may fail.
NextServe ==
  \/ StartupGetCache /\ UNCHANGED ServeVars
  \/ AzureInitClient /\ UNCHANGED <<ServeVars, http>>
  \/ AzureCreateContainer /\ UNCHANGED <<ServeVars, http>>
  \/ FsMkdir /\ UNCHANGED <<ServeVars, http>>
  \/ \E r \in Reqs : Receive(r, HotKey, hotFormat) /\ UNCHANGED ServeVars
  \/ \E r \in Reqs : CacheGet(r) /\ UNCHANGED ServeVars
  \/ \E r \in Reqs : ReadStep(r) /\ UNCHANGED ServeVars
  \/ \E r \in Reqs, located \in BOOLEAN :
       AfterGet(r, located) /\ UNCHANGED ServeVars
  \/ \E r \in Reqs, outcome \in {"ok", "empty", "error"}, bytes \in Bytes :
       UpstreamDone(r, outcome, bytes) /\ UNCHANGED ServeVars
  \/ \E r \in Reqs, outcome \in {"ok", "error"}, bytes \in Bytes :
       EncodeDone(r, outcome, bytes) /\ UNCHANGED ServeVars
  \/ \E r \in Reqs, outcome \in {"ok", "error"} :
       WriteBackDone(r, outcome) /\ UNCHANGED ServeVars
  \/ \E r \in Reqs : EndRequest(r) /\ UNCHANGED ServeVars

\* the contended request asks for an svg or a png; azureConfigured matters
\* only to STORAGE_TYPE azure-blob
InitServe ==
  /\ Init
  /\ hotFormat \in {"svg", "png"}
  /\ STORAGE_TYPE = "filesystem" => ~azureConfigured
  /\ \A path \in DOMAIN files : files[path] = 1

SpecServe == InitServe /\ [][NextServe]_vars

\* One handler serves requests one after the other: requests for the
\* contended fingerprint before the fill and from the moment the Memory Tier
\* is about to be full, and in between one request for each of the fill keys,
\* whose upstream, encoding and durable operations all succeed. The first
\* request arrives when the initialization of the backend has ended.
HotRequest == http[Filler].key = HotKey

TrackReceive ==
  writeBack' = [writeBack EXCEPT !.after = writeBack.level]

TrackGet ==
  writeBack' =
    IF HotRequest
      THEN [writeBack EXCEPT !.mem = MemoryHit(MemoryKey(HotKey, hotFormat))]
      ELSE writeBack

TrackAfterGet ==
  writeBack' = IF HotRequest THEN [writeBack EXCEPT !.io = req[Filler].io]
               ELSE writeBack

TrackWriteBack ==
  writeBack' =
    IF HotRequest /\ req'[Filler].op = "set" /\ writeBack.level = "no"
      THEN [writeBack EXCEPT !.level = "memory"]
      ELSE writeBack

TrackWriteDone(outcome) ==
  writeBack' = IF HotRequest /\ outcome = "ok"
                 THEN [writeBack EXCEPT !.level = "durable"]
                 ELSE writeBack

TrackEnd ==
  writeBack' = [NoWriteBack EXCEPT !.level = writeBack.level]

ServeFillVars == <<setLog, keyVars, chartVars, origin>>

ReceiveHot ==
  /\ initPc = "done"
  /\ HotAllowed
  /\ Receive(Filler, HotKey, hotFormat)
  /\ TrackReceive
  /\ UNCHANGED <<nextFill, ServeFillVars>>

ReceiveFill ==
  /\ initPc = "done"
  /\ nextFill <= MaxFill
  /\ Receive(Filler, FillKey(nextFill).key, FillKey(nextFill).format)
  /\ nextFill' = nextFill + 1
  /\ UNCHANGED <<writeBack, ServeFillVars>>

NextServeFill ==
  \/ StartupGetCache /\ UNCHANGED <<fillVars, restVars>>
  \/ AzureInitClient /\ UNCHANGED <<fillVars, restVars>>
  \/ AzureCreateContainer /\ UNCHANGED <<fillVars, restVars>>
  \/ FsMkdir /\ UNCHANGED <<fillVars, restVars>>
  \/ ReceiveHot
  \/ ReceiveFill
  \/ CacheGet(Filler) /\ TrackGet /\ UNCHANGED <<nextFill, ServeFillVars>>
  \/ /\ ReadStep(Filler)
     /\ HotRequest \/ req'[Filler].io # "error"
     /\ UNCHANGED <<nextFill, writeBack, ServeFillVars>>
  \/ /\ AfterGet(Filler, TRUE)
     /\ TrackAfterGet
     /\ UNCHANGED <<nextFill, ServeFillVars>>
  \/ \E outcome \in {"ok", "empty", "error"}, bytes \in Bytes :
       /\ HotRequest \/ (outcome = "ok" /\ bytes = FillData(nextFill))
       /\ UpstreamDone(Filler, outcome, bytes)
       /\ TrackWriteBack
       /\ UNCHANGED <<nextFill, ServeFillVars>>
  \/ \E outcome \in {"ok", "error"}, bytes \in Bytes :
       /\ HotRequest \/ (outcome = "ok" /\ bytes = FillData(nextFill))
       /\ EncodeDone(Filler, outcome, bytes)
       /\ TrackWriteBack
       /\ UNCHANGED <<nextFill, ServeFillVars>>
  \/ \E outcome \in {"ok", "error"} :
       /\ HotRequest \/ outcome = "ok"
       /\ WriteBackDone(Filler, outcome)
       /\ TrackWriteDone(outcome)
       /\ UNCHANGED <<nextFill, ServeFillVars>>
  \/ EndRequest(Filler) /\ TrackEnd /\ UNCHANGED <<nextFill, ServeFillVars>>

InitServeFill == InitServe /\ hotFormat = "png"

SpecServeFill == InitServeFill /\ [][NextServeFill]_vars

\* GET /api/weather-year-image. A query parameter is absent or is given as a
\* string, the sequence of its characters.
Absent == [given |-> FALSE, s |-> <<>>]

Given(s) == [given |-> TRUE, s |-> s]

\* new Date().getFullYear() at the time of the run
CurrentYear == 2026

NaN == [nan |-> TRUE, v |-> 0]

Parsed(v) == [nan |-> FALSE, v |-> v]

DigitValue ==
  "0" :> 0 @@ "1" :> 1 @@ "2" :> 2 @@ "3" :> 3 @@ "4" :> 4 @@ "5" :> 5 @@
  "6" :> 6 @@ "7" :> 7 @@ "8" :> 8 @@ "9" :> 9

IsDigit(c) == c \in DOMAIN DigitValue

\* the longest prefix of s made of digits
RECURSIVE DigitPrefix(_)
DigitPrefix(s) ==
  IF s = <<>> \/ ~IsDigit(Head(s)) THEN <<>>
  ELSE <<Head(s)>> \o DigitPrefix(Tail(s))

RECURSIVE DigitsValue(_)
DigitsValue(d) ==
  IF d = <<>> THEN 0
  ELSE 10 * DigitsValue(SubSeq(d, 1, Len(d) - 1)) + DigitValue[d[Len(d)]]

\* parseInt(s, 10): an optional sign and the digits that follow it, whatever
\* comes after them; NaN when no digit follows
ParseInt(s) ==
  LET signed == s # <<>> /\ Head(s) \in {"-", "+"}
      digits == DigitPrefix(IF signed THEN Tail(s) ELSE s)
  IN  IF digits = <<>> THEN NaN
      ELSE IF signed /\ Head(s) = "-" THEN Parsed(0 - DigitsValue(digits))
      ELSE Parsed(DigitsValue(digits))

\* year ? parseInt(year, 10) : new Date().getFullYear() - 1
ParsedYear(year) ==
  IF year.given /\ year.s # <<>> THEN ParseInt(year.s)
  ELSE Parsed(CurrentYear - 1)

\* Number.isNaN(y) || y < 1940 || y > new Date().getFullYear()
YearRejected(y) == y.nan \/ y.v < 1940 \/ y.v > CurrentYear

\* cell_size != null ? parseInt(cell_size, 10) : undefined
ParsedCellSize(cell_size) ==
  IF cell_size.given THEN ParseInt(cell_size.s) ELSE Parsed(Undefined)

\* a validation of cell_size without the upper bound
CellSizeRejectedBelowOnly(cell_size, cellSize) ==
  cell_size.given /\ (cellSize.nan \/ cellSize.v < 1)

\* cell_size != null && (Number.isNaN(cellSize) || cellSize < 1 ||
\* cellSize > 64)
CellSizeRejected(cell_size, cellSize) ==
  cell_size.given /\ (cellSize.nan \/ cellSize.v < 1 \/ cellSize.v > 64)

\* the fingerprint of a year heatmap request: generateCacheKey of an object
\* with year: y and cell_size: cellSize || 8 (the location and the other
\* options are the same in every request of a run)
YearKey(y, cellSize) ==
  100 * y.v + (IF cellSize.v = Undefined THEN CELL_SIZE ELSE cellSize.v)

\* a request arrives: the handler validates year and cell_size, builds the
\* key and calls getCache()
ReceiveYear(r, year, cell_size, format) ==
  /\ http[r].stage = "idle"
  /\ initStarts > 0
  /\ LET y == ParsedYear(year)
         cellSize == ParsedCellSize(cell_size)
         h == [IdleHttp EXCEPT !.format = format, !.year = year,
                               !.cell_size = cell_size]
     IN  IF YearRejected(y) \/ CellSizeRejected(cell_size, cellSize)
           THEN /\ http' = [http EXCEPT ![r] = Respond(h, "400", "validation")]
                /\ UNCHANGED cacheVars
           ELSE /\ GetCacheCall(r)
                /\ http' = [http EXCEPT ![r] =
                              [h EXCEPT !.stage = "getCache",
                                        !.key = YearKey(y, cellSize),
                                        !.cellSize = cellSize.v]]

\* the values of year and of cell_size in the requests of a run
YearStrings ==
  {<<>>, <<"x">>, <<"1", "9", "3", "9">>, <<"1", "9", "4", "0">>,
   <<"1", "9", "4", "0", "x">>, <<"2", "0", "2", "6">>,
   <<"2", "0", "2", "7">>}

CellSizeStrings ==
  {<<>>, <<"x">>, <<"0">>, <<"1">>, <<"6", "4">>, <<"6", "5">>,
   <<"1", "2", "p", "x">>, <<"-", "8">>}

Queries(strings) == {Absent} \cup {Given(q) : q \in strings}

\* One handler serves one year heatmap request, whose year and cell_size are
\* any of the values above; every upstream, encoding and durable operation
\* may fail.
NextYear ==
  \/ StartupGetCache /\ UNCHANGED ServeVars
  \/ AzureInitClient /\ UNCHANGED <<ServeVars, http>>
  \/ AzureCreateContainer /\ UNCHANGED <<ServeVars, http>>
  \/ FsMkdir /\ UNCHANGED <<ServeVars, http>>
  \/ \E year \in Queries(YearStrings), cell_size \in Queries(CellSizeStrings) :
       ReceiveYear(Filler, year, cell_size, hotFormat) /\ UNCHANGED ServeVars
  \/ CacheGet(Filler) /\ UNCHANGED ServeVars
  \/ ReadStep(Filler) /\ UNCHANGED ServeVars
  \/ \E located \in BOOLEAN : AfterGet(Filler, located) /\ UNCHANGED ServeVars
  \/ \E outcome \in {"ok", "empty", "error"}, bytes \in Bytes :
       UpstreamDone(Filler, outcome, bytes) /\ UNCHANGED ServeVars
  \/ \E outcome \in {"ok", "error"}, bytes \in Bytes :
       EncodeDone(Filler, outcome, bytes) /\ UNCHANGED ServeVars
  \/ \E outcome \in {"ok", "error"} :
       WriteBackDone(Filler, outcome) /\ UNCHANGED ServeVars

InitYear == InitServe /\ files = NoFiles

SpecYear == InitYear /\ [][NextYear]_vars

\* ------------------------------------------------------ generateCacheKey
\* A string is the sequence of its characters; an object is the sequence of
\* its properties [name, value] in insertion order, and Object.keys() lists
\* the names in that order.
CodeUnit ==
  ":" :> 58 @@ "a" :> 97 @@ "b" :> 98 @@ "c" :> 99 @@ "d" :> 100 @@
  "l" :> 108 @@ "n" :> 110 @@ "u" :> 117 @@ "x" :> 120 @@ "y" :> 121 @@
  "|" :> 124

JsNull == [t |-> "null", s |-> <<>>]

Str(s) == [t |-> "string", s |-> s]

\* `${value}` of a template literal
TemplateString(v) == IF v = JsNull THEN <<"n", "u", "l", "l">> ELSE v.s

\* the order of Array.prototype.sort() without a comparator: by code units
RECURSIVE StringLess(_, _)
StringLess(s, t) ==
  IF t = <<>> THEN FALSE
  ELSE IF s = <<>> THEN TRUE
  ELSE IF CodeUnit[Head(s)] # CodeUnit[Head(t)]
    THEN CodeUnit[Head(s)] < CodeUnit[Head(t)]
    ELSE StringLess(Tail(s), Tail(t))

RECURSIVE SortInsert(_, _)
SortInsert(sorted, x) ==
  IF sorted = <<>> THEN <<x>>
  ELSE IF StringLess(x, Head(sorted)) THEN <<x>> \o sorted
  ELSE <<Head(sorted)>> \o SortInsert(Tail(sorted), x)

RECURSIVE ArraySort(_)
ArraySort(a) ==
  IF a = <<>> THEN <<>>
  ELSE SortInsert(ArraySort(SubSeq(a, 1, Len(a) - 1)), a[Len(a)])

ObjectKeys(o) == [i \in 1..Len(o) |-> o[i].name]

Property(o, name) == o[CHOOSE i \in 1..Len(o) : o[i].name = name].value

\* the names as they were inserted, not sorted
KeysAsInserted(o) == ObjectKeys(o)

\* Object.keys(params).sort()
SortedKeys(o) == ArraySort(ObjectKeys(o))

RECURSIVE Join(_, _)
Join(a, sep) ==
  IF a = <<>> THEN <<>>
  ELSE IF Len(a) = 1 THEN a[1]
  ELSE a[1] \o sep \o Join(Tail(a), sep)

\* the string `sorted` that is hashed
PreHash(o) ==
  LET keys == SortedKeys(o)
  IN  Join([i \in 1..Len(keys) |->
              keys[i] \o <<":">> \o TemplateString(Property(o, keys[i]))], <<"|">>)

\* the SHA-256 digest in hex: two digests are equal iff the strings hashed are
Sha256Hex(s) == [sha256 |-> s]

generateCacheKey(o) == Sha256Hex(PreHash(o))

\* the parameter objects of a run: names a, b, ..., and values that are null,
\* the text "null", or texts with and without the delimiters ':' and '|'
ParamNames == {SubSeq(<<"a", "b", "c", "d">>, i, i) : i \in 1..NumNames}

ParamValues ==
  {JsNull, Str(<<"n", "u", "l", "l">>), Str(<<"x">>), Str(<<"y">>),
   Str(<<"x", "|", "b", ":", "y">>)}

ParamObjects ==
  UNION {{o \in [1..n -> [name : ParamNames, value : ParamValues]] :
            \A i, j \in 1..n : i # j => o[i].name # o[j].name} :
         n \in 0..NumNames}

\* the objects whose names were inserted in sorted order
SortedObjects ==
  {o \in ParamObjects :
     \A i, j \in 1..Len(o) : i < j => StringLess(o[i].name, o[j].name)}

\* the cache of a run that only computes: FileSystemCache, empty directory
InitIdleCache ==
  /\ InitCache
  /\ STORAGE_TYPE = "filesystem"
  /\ ~azureConfigured
  /\ hotFormat = "png"
  /\ files = NoFiles

\* two objects are given: the first with its names in any insertion order
InitKey ==
  /\ InitIdleCache
  /\ paramObjects \in ParamObjects \X SortedObjects
  /\ cacheKeys = <<>>
  /\ NoChartInput
  /\ NoRequests
  /\ origin = {}

\* generateCacheKey is applied to the next object
GenerateCacheKey ==
  /\ Len(cacheKeys) < Len(paramObjects)
  /\ cacheKeys' =
       Append(cacheKeys, generateCacheKey(paramObjects[Len(cacheKeys) + 1]))
  /\ UNCHANGED <<stateVars, paramObjects, chartVars>>

NextKey == GenerateCacheKey

SpecKey == InitKey /\ [][NextKey]_vars

\* -------------------------------------------------------- chart builders
\* data.hourly is modelled as the sequence of its samples [date, hour, t, h,
\* p]: time[i] split into its date (slice(0, 10); dates are numbered in
\* calendar order, which is the order of their ISO strings) and its hour
\* (slice(11, 13)), temperature_2m[i], relative_humidity_2m[i] and
\* precipitation[i]. A value is a number or is missing (null or undefined).
Missing == [missing |-> TRUE, v |-> 0]

Num(x) == [missing |-> FALSE, v |-> x]

\* t != null && !Number.isNaN(t)
IsNumber(x) == ~x.missing

NegInfinity == [inf |-> 0 - 1, v |-> 0]

PosInfinity == [inf |-> 1, v |-> 0]

Finite(x) == [inf |-> 0, v |-> x]

\* Math.max(row.maxTemp, t)
MathMax(a, x) == IF a = NegInfinity \/ a.v < x THEN Finite(x) ELSE a

\* Math.min(row.minTemp, t)
MathMin(a, x) == IF a = PosInfinity \/ a.v > x THEN Finite(x) ELSE a

\* the row byDay.set() creates for a new date
NewRow(date) ==
  [date |-> date, maxTemp |-> NegInfinity, minTemp |-> PosInfinity,
   sumHumidity |-> 0, count |-> 0, sumPrecip |-> 0]

\* an aggregation that uses only the samples that have every field
AddCompleteSample(row, s) ==
  IF IsNumber(s.t) /\ IsNumber(s.h) /\ IsNumber(s.p)
    THEN [row EXCEPT !.maxTemp = MathMax(@, s.t.v),
                     !.minTemp = MathMin(@, s.t.v),
                     !.sumHumidity = @ + s.h.v,
                     !.count = @ + 1,
                     !.sumPrecip = @ + s.p.v]
    ELSE row

\* the body of the loop, after the row of the date was looked up
AddSample(row, s) ==
  LET r1 == IF IsNumber(s.t)
              THEN [row EXCEPT !.maxTemp = MathMax(@, s.t.v),
                               !.minTemp = MathMin(@, s.t.v)]
              ELSE row
      r2 == IF IsNumber(s.h)
              THEN [r1 EXCEPT !.sumHumidity = @ + s.h.v, !.count = @ + 1]
              ELSE r1
  IN  IF IsNumber(s.p) THEN [r2 EXCEPT !.sumPrecip = @ + s.p.v] ELSE r2

\* byDay after the first n iterations of the loop
RECURSIVE ByDay(_, _)
ByDay(series, n) ==
  IF n = 0 THEN <<>>
  ELSE LET s == series[n]
           m == ByDay(series, n - 1)
           byDay == IF MapHas(m, s.date) THEN m
                    ELSE MapSet(m, s.date, NewRow(s.date))
       IN  MapSet(byDay, s.date, AddSample(MapGet(byDay, s.date), s))

\* the object .map() makes of a row (the quotient is exact on the humidities
\* of HumidityValues)
DailyRow(row) ==
  [date |-> row.date,
   maxTemp |-> IF row.maxTemp = NegInfinity THEN Missing
               ELSE Num(row.maxTemp.v),
   minTemp |-> IF row.minTemp = PosInfinity THEN Missing
               ELSE Num(row.minTemp.v),
   meanHumidity |-> IF row.count # 0 THEN Num(row.sumHumidity \div row.count)
                    ELSE Missing,
   precipitationSum |-> Num(row.sumPrecip)]

\* .sort((a, b) => a.date.localeCompare(b.date))
RECURSIVE InsertByDate(_, _)
InsertByDate(sorted, x) ==
  IF sorted = <<>> THEN <<x>>
  ELSE IF x.date < Head(sorted).date THEN <<x>> \o sorted
  ELSE <<Head(sorted)>> \o InsertByDate(Tail(sorted), x)

RECURSIVE SortByDate(_)
SortByDate(a) ==
  IF a = <<>> THEN <<>>
  ELSE InsertByDate(SortByDate(SubSeq(a, 1, Len(a) - 1)), a[Len(a)])

aggregateHourlyToDaily(series) ==
  IF Len(series) = 0 THEN <<>>
  ELSE LET byDay == ByDay(series, Len(series))
       IN  SortByDate([i \in 1..Len(byDay) |-> DailyRow(byDay[i].v)])

\* columns in an order that puts noon first
HourToColFromNoon(hour) == (hour + 12) % numCols

\* Math.min(23, Math.max(0, hour))
HourToCol(hour) ==
  LET atLeast0 == IF hour < 0 THEN 0 ELSE hour
  IN  IF atLeast0 > 23 THEN 23 ELSE atLeast0

\* Array.from(dateSet).sort()
RECURSIVE SortedDates(_)
SortedDates(dateSet) ==
  IF dateSet = {} THEN <<>>
  ELSE LET first == CHOOSE d \in dateSet : \A e \in dateSet : d <= e
       IN  <<first>> \o SortedDates(dateSet \ {first})

\* dateToRow.get(dateStr), rows counted from 1
DateToRow(sortedDates, date) ==
  CHOOSE i \in 1..Len(sortedDates) : sortedDates[i] = date

\* grid after the first n iterations of the loop that fills it
RECURSIVE FillGrid(_, _, _)
FillGrid(series, sortedDates, n) ==
  IF n = 0
    THEN [row \in 1..Len(sortedDates) |-> [col \in 0..(numCols - 1) |-> Missing]]
    ELSE LET g == FillGrid(series, sortedDates, n - 1)
             s == series[n]
             row == DateToRow(sortedDates, s.date)
             col == HourToCol(s.hour)
         IN  IF IsNumber(s.t) THEN [g EXCEPT ![row][col] = s.t] ELSE g

\* the rows of the heatmap: sortedDates[row] with grid[row]
HeatmapGrid(series) ==
  LET sortedDates == SortedDates({series[i].date : i \in 1..Len(series)})
      g == FillGrid(series, sortedDates, Len(series))
  IN  [row \in 1..Len(sortedDates) |->
         [date |-> sortedDates[row], cells |-> g[row]]]

\* the series of a run: at most MaxSamples samples with distinct timestamps,
\* in any order
Hours == {0, 23}

TemperatureValues == {Missing, Num(0 - 1), Num(2)}

HumidityValues == {Missing, Num(30), Num(90)}

PrecipitationValues == {Missing, Num(3)}

Samples ==
  [date : 1..NumDays, hour : Hours, t : TemperatureValues,
   h : HumidityValues, p : PrecipitationValues]

Series ==
  UNION {{s \in [1..n -> Samples] :
            \A i, j \in 1..n :
              i # j => (s[i].date # s[j].date \/ s[i].hour # s[j].hour)} :
         n \in 0..MaxSamples}

\* handler Filler has missed the cache of the file-system backend, which is
\* empty, and awaits the upstream data
Fetching ==
  /\ MEMORY_CACHE = <<>>
  /\ files = NoFiles
  /\ blobs = NoFiles
  /\ STORAGE_TYPE = "filesystem"
  /\ azureConfigured = FALSE
  /\ cacheInstance = "fs"
  /\ cacheInitPromise = None
  /\ initPc = "done"
  /\ containerClient = FALSE
  /\ initCompleted = {"fs"}
  /\ initStarts = 1
  /\ azureFailure = None
  /\ yielded = {"fs"}
  /\ req = [r \in Reqs |->
              IF r = Filler THEN [IdleReq EXCEPT !.pc = "ready", !.cache = "fs"]
              ELSE IdleReq]
  /\ lastSet = NoSet
  /\ http = [r \in Reqs |->
               IF r = Filler
                 THEN [IdleHttp EXCEPT !.stage = "fetch", !.key = HotKey,
                                       !.format = hotFormat]
                 ELSE IdleHttp]

InitChart ==
  /\ hotFormat \in {"svg", "png"}
  /\ Fetching
  /\ nextFill = 1
  /\ setLog = NoLog
  /\ writeBack = NoWriteBack
  /\ NoKeyInput
  /\ hourly \in Series
  /\ daily = NotDone
  /\ grid = NotDone
  /\ origin = {}

Thrown == [NotDone EXCEPT !.done = TRUE, !.threw = TRUE]

\* a range chart builder without the test for an empty aggregation
buildWeatherChartSvgUnguarded(series) ==
  [NotDone EXCEPT !.done = TRUE, !.rows = aggregateHourlyToDaily(series),
                  !.width = WIDTH, !.height = HEIGHT]

\* buildWeatherChartSvg(data), up to the attributes of the svg element
buildWeatherChartSvg(series) ==
  LET dailyRows == aggregateHourlyToDaily(series)
  IN  IF Len(dailyRows) = 0
        THEN Thrown
        ELSE [NotDone EXCEPT !.done = TRUE, !.rows = dailyRows,
                             !.width = WIDTH, !.height = HEIGHT]

\* buildYearHeatmapSvg(data, options), up to the attributes of the svg
\* element; cellSizeOption is options.cellSize
buildYearHeatmapSvg(series, cellSizeOption) ==
  IF Len(series) = 0
    THEN Thrown
    ELSE LET cellSize == IF cellSizeOption = Undefined THEN CELL_SIZE
                         ELSE cellSizeOption
             rows == HeatmapGrid(series)
         IN  [NotDone EXCEPT
                !.done = TRUE, !.rows = rows, !.cellSize = cellSize,
                !.width = numCols * cellSize + HEATMAP_MARGIN.left
                            + HEATMAP_MARGIN.right,
                !.height = Len(rows) * cellSize + HEATMAP_MARGIN.top
                             + HEATMAP_MARGIN.bottom]

\* options.cellSize as the handler passes it: absent, or within 1..64
CellSizeOptions == {Undefined, 1, 64}

\* what the handler does with the outcome of a builder
Rendered(built) == IF built.threw THEN "empty" ELSE "ok"

\* the upstream data of the handler has arrived: buildWeatherChartSvg(data)
\* is called (it calls aggregateHourlyToDaily) and the handler goes on
AggregateHourlyToDaily ==
  /\ ~daily.done /\ ~grid.done
  /\ daily' = buildWeatherChartSvg(hourly)
  /\ \E bytes \in Bytes : UpstreamDone(Filler, Rendered(daily'), bytes)
  /\ UNCHANGED <<fillVars, keyVars, hourly, grid, writeBack, origin>>

\* the upstream data of the handler has arrived: buildYearHeatmapSvg(data,
\* options) is called and the handler goes on
BuildYearHeatmapGrid ==
  /\ ~daily.done /\ ~grid.done
  /\ \E cellSizeOption \in CellSizeOptions :
       grid' = buildYearHeatmapSvg(hourly, cellSizeOption)
  /\ \E bytes \in Bytes : UpstreamDone(Filler, Rendered(grid'), bytes)
  /\ UNCHANGED <<fillVars, keyVars, hourly, daily, writeBack, origin>>

NextChart ==
  \/ AggregateHourlyToDaily
  \/ BuildYearHeatmapGrid

SpecChart == InitChart /\ [][NextChart]_vars

\* ----------------------------------------------------------------- claims
InCall(r) == req[r].pc \notin {"idle", "await_init", "ready"}

CallKey(r) == MemoryKey(req[r].key, req[r].format)

\* C1: set(f, fmt, b) directly followed by get(f, fmt) returns b, for both
\* backends: when the get that directly followed the latest set has returned,
\* it has returned the bytes given to that set.
C1_RoundTrip ==
  \A r \in Reqs :
    (lastSet.get = r /\ req[r].pc = "returned")
      => (~req[r].threw /\ req[r].ret = lastSet.data)

\* a get that directly followed a set of the same key has returned, on a
\* key whose durable copy differs from the bytes set or is missing
C1_Witness ==
  \E r \in Reqs :
    /\ lastSet.get = r
    /\ req[r].pc = "returned"
    /\ req[r].ret = lastSet.data
    /\ LET p == GetCachePath(lastSet.key, lastSet.format)
           dir == IF req[r].cache = "fs" THEN files ELSE blobs
       IN  ~HasFile(dir, p) \/ dir[p] # lastSet.data

\* C2: get never fails towards its caller, whatever the Durable Backend read
\* ends in: no call has thrown.
C2_GetNeverThrows ==
  \A r \in Reqs : req[r].op = "get" => ~req[r].threw

\* C3: set writes the Memory Tier before the durable write is attempted, and a
\* failed durable write leaves set completing normally with its entry present:
\* while the write is pending and after it has settled, the key is in the
\* Memory Tier, with the bytes of this set as long as no other call has taken
\* a step, and set has not thrown.
C3_SetSurvivesWriteFailure ==
  \A r \in Reqs :
    (req[r].op = "set" /\ InCall(r))
      => /\ ~req[r].threw
         /\ req[r].pc = "returned" => req[r].ret = Undefined
         /\ MapHas(MEMORY_CACHE, CallKey(r))
         /\ (lastSet.r = r /\ lastSet.get = 0)
              => MapGet(MEMORY_CACHE, CallKey(r)) = req[r].data

\* a set has returned after its durable write failed
C3_Witness ==
  \E r \in Reqs :
    /\ req[r].op = "set"
    /\ req[r].pc = "returned"
    /\ req[r].io = "error"
    /\ lastSet.r = r
    /\ MapGet(MEMORY_CACHE, CallKey(r)) = req[r].data

\* C4: getCache() never resolves to a backend instance whose init() has not
\* completed: every caller holds an instance whose init() has returned.
C4_ResolvesAfterInit ==
  \A r \in Reqs : req[r].cache # None => req[r].cache \in initCompleted

\* C5: the initialization body is started at most once.
C5_InitStartedOnce == initStarts <= 1

\* every caller has called getCache() and holds the backend, and the
\* initialization body has run once
C5_Witness ==
  /\ initStarts = 1
  /\ initPc = "done"
  /\ \A r \in Reqs : req[r].cache # None

\* C6: when the object store is selected and fails to initialize (missing
\* credentials, or unreachable), getCache() ends with the filesystem backend
\* and later calls run against the filesystem.
C6_FallbackOnAzureFailure ==
  (STORAGE_TYPE = "azure-blob" /\ azureFailure # None /\ initPc = "done")
    => cacheInstance = "fs"

\* C7: every getCache() call of one process yields the same backend instance.
C7_OneBackendInstance == Cardinality(yielded) <= 1

LogKey(i) == MemoryKey(setLog.keys[i].key, setLog.keys[i].format)

LogLen == Len(setLog.keys)

\* C8: the Memory Tier never holds more than 100 entries, and its entries are
\* keyed by (fingerprint, format): no key occurs twice, and as long as no more
\* than 100 distinct (fingerprint, format) pairs have been set, each of them
\* has an entry of its own holding its own bytes.
C8_MemoryTierBounded ==
  /\ Len(MEMORY_CACHE) <= 100
  /\ Cardinality(MapKeys(MEMORY_CACHE)) = Len(MEMORY_CACHE)
  /\ (setLog.ok /\ LogLen <= 100)
       => /\ Len(MEMORY_CACHE) = LogLen
          /\ \A i \in 1..LogLen :
               /\ MapHas(MEMORY_CACHE, LogKey(i))
               /\ MapGet(MEMORY_CACHE, LogKey(i)) = setLog.keys[i].data

\* the tier is full, entries have been evicted, and one fingerprint is held
\* both as svg and as png, with different bytes
C8_Witness ==
  /\ Len(MEMORY_CACHE) = 100
  /\ nextFill > MAX_MEMORY_CACHE_SIZE + 1
  /\ \E f \in 1..MaxFill :
       /\ MapHas(MEMORY_CACHE, MemoryKey(f, "svg"))
       /\ MapHas(MEMORY_CACHE, MemoryKey(f, "png"))
       /\ MapGet(MEMORY_CACHE, MemoryKey(f, "svg"))
            # MapGet(MEMORY_CACHE, MemoryKey(f, "png"))

\* after capacity+1 set() calls of distinct keys on an empty Memory Tier,
\* exactly the first key is absent and all the others are present
ExactlyFirstEvicted ==
  (setLog.ok /\ LogLen = MAX_MEMORY_CACHE_SIZE + 1 /\ setLog.probe = 0)
    => /\ ~MapHas(MEMORY_CACHE, LogKey(1))
       /\ \A i \in 2..LogLen : MapHas(MEMORY_CACHE, LogKey(i))

ProbeReturned ==
  /\ setLog.ok
  /\ setLog.probe # 0
  /\ req[setLog.probe].pc = "returned"

FifoSuffix ==
  (setLog.ok /\ setLog.probe = 0)
    => LET n == LogLen
           m == Len(MEMORY_CACHE)
       IN  /\ m = IF n <= MAX_MEMORY_CACHE_SIZE THEN n ELSE MAX_MEMORY_CACHE_SIZE
           /\ \A i \in 1..m : MEMORY_CACHE[i].k = LogKey(n - m + i)

\* a step removes no key but the oldest one
EvictsOldestOnly ==
  \A k \in MapKeys(MEMORY_CACHE) \ MapKeys(MEMORY_CACHE') :
    k = MEMORY_CACHE[1].k

\* a get() that hits the Memory Tier leaves it as it is
HitKeepsOrder ==
  \A r \in Reqs :
    (req[r].pc = "ready" /\ req'[r].pc = "returned" /\ req'[r].io = "memory")
      => MEMORY_CACHE' = MEMORY_CACHE

C11_WarmGetFromMemory ==
  [][\A r \in Reqs :
       (/\ req[r].pc = "ready"
        /\ req'[r].op = "get"
        /\ MemoryKey(req'[r].key, req'[r].format) \in MapKeys(MEMORY_CACHE))
         => /\ req'[r].pc = "returned"
            /\ req'[r].io = "memory"
            /\ ~req'[r].threw
            /\ \E i \in 1..Len(MEMORY_CACHE) :
                  /\ MEMORY_CACHE[i].k = MemoryKey(req'[r].key, req'[r].format)
                  /\ MEMORY_CACHE[i].v = req'[r].ret]_vars

\* a get that did not directly follow a set has been answered from the
\* Memory Tier while the Durable Backend holds no copy of the key
C11_Witness ==
  \E r \in Reqs :
    /\ req[r].op = "get"
    /\ req[r].pc = "returned"
    /\ req[r].io = "memory"
    /\ req[r].ret \in Bytes
    /\ lastSet.get # r
    /\ ~HasFile(IF req[r].cache = "fs" THEN files ELSE blobs,
                GetCachePath(req[r].key, req[r].format))

\* the two objects have the same names with the same values
SameMapping ==
  {paramObjects[1][i] : i \in 1..Len(paramObjects[1])}
    = {paramObjects[2][i] : i \in 1..Len(paramObjects[2])}

\* C15: generateCacheKey does not depend on the insertion order of the names:
\* two objects with the same names and the same values get the same key.
C15_KeyIgnoresInsertionOrder ==
  (Len(cacheKeys) = 2 /\ SameMapping) => cacheKeys[1] = cacheKeys[2]

\* the same mapping, inserted in two different orders, has got the same key
C15_Witness ==
  /\ Len(cacheKeys) = 2
  /\ SameMapping
  /\ paramObjects[1] # paramObjects[2]
  /\ cacheKeys[1] = cacheKeys[2]

\* C16: two objects get the same key if and only if they are the same
\* mapping: objects that differ in a value, be it a value with ':' or '|' or
\* null against the text "null", never get the same pre-hash string.
C16_KeyIsInjective ==
  Len(cacheKeys) = 2 => (cacheKeys[1] = cacheKeys[2] <=> SameMapping)

\* the samples of a date that have a number in a field
ValidSamples(date, field) ==
  {i \in 1..Len(hourly) : hourly[i].date = date /\ ~hourly[i][field].missing}

RECURSIVE SumOfField(_, _)
SumOfField(indexes, field) ==
  IF indexes = {} THEN 0
  ELSE LET i == CHOOSE j \in indexes : TRUE
       IN  hourly[i][field].v + SumOfField(indexes \ {i}, field)

FieldValues(indexes, field) == {hourly[i][field].v : i \in indexes}

\* C18: the Daily Aggregate has one row per date of the series, and each
\* field of a row is aggregated over the date's samples that have that field:
\* maxTemp and minTemp are the largest and smallest of the date's
\* temperatures, meanHumidity the mean of the date's humidities, whatever
\* other fields those samples lack.
C18_FieldsAggregatedSeparately ==
  daily.done =>
    /\ \A i \in 1..Len(hourly) :
         \E k \in 1..Len(daily.rows) : daily.rows[k].date = hourly[i].date
    /\ \A k \in 1..Len(daily.rows) :
         LET row == daily.rows[k]
             ts == ValidSamples(row.date, "t")
             hs == ValidSamples(row.date, "h")
         IN  /\ ts # {} =>
                  /\ IsNumber(row.maxTemp) /\ IsNumber(row.minTemp)
                  /\ row.maxTemp.v \in FieldValues(ts, "t")
                  /\ row.minTemp.v \in FieldValues(ts, "t")
                  /\ \A v \in FieldValues(ts, "t") :
                       row.minTemp.v <= v /\ v <= row.maxTemp.v
             /\ hs # {} =>
                  /\ IsNumber(row.meanHumidity)
                  /\ row.meanHumidity.v * Cardinality(hs)
                       = SumOfField(hs, "h")

\* a date has a sample with a humidity and no temperature and a sample with
\* a temperature and no humidity, and its row has both aggregates
C18_Witness ==
  /\ daily.done
  /\ \E k \in 1..Len(daily.rows), i, j \in 1..Len(hourly) :
       /\ hourly[i].date = daily.rows[k].date
       /\ hourly[j].date = daily.rows[k].date
       /\ hourly[i].t.missing /\ ~hourly[i].h.missing
       /\ ~hourly[j].t.missing /\ hourly[j].h.missing
       /\ daily.rows[k].maxTemp = hourly[j].t
       /\ daily.rows[k].meanHumidity = hourly[i].h

\* C19: in the Daily Aggregate a field of a date is absent when the date has
\* no sample with a number in that field: maxTemp, minTemp, meanHumidity and
\* precipitationSum.
C19_NoSamplesNoValue ==
  daily.done =>
    \A k \in 1..Len(daily.rows) :
      LET row == daily.rows[k]
      IN  /\ ValidSamples(row.date, "t") = {} =>
               (row.maxTemp = Missing /\ row.minTemp = Missing)
          /\ ValidSamples(row.date, "h") = {} => row.meanHumidity = Missing
          /\ ValidSamples(row.date, "p") = {} => row.precipitationSum = Missing

SeriesDates == {hourly[i].date : i \in 1..Len(hourly)}

\* C20: the heatmap grid has one row per date of the series, in ascending
\* order of the dates, every row has the 24 columns 0..23, and the
\* temperature of a sample of hour h is in the row of its date at column h.
C20_GridPlacesSamples ==
  (grid.done /\ ~grid.threw) =>
    /\ Len(grid.rows) = Cardinality(SeriesDates)
    /\ \A r \in 1..Len(grid.rows) :
         /\ grid.rows[r].date \in SeriesDates
         /\ DOMAIN grid.rows[r].cells = 0..23
         /\ \A q \in 1..Len(grid.rows) :
              q < r => grid.rows[q].date < grid.rows[r].date
    /\ \A i \in 1..Len(hourly) :
         ~hourly[i].t.missing =>
           \E r \in 1..Len(grid.rows) :
             /\ grid.rows[r].date = hourly[i].date
             /\ grid.rows[r].cells[hourly[i].hour] = hourly[i].t

\* a series given in descending order of its dates has its samples, of the
\* hours 0 and 23, in a grid of two rows
C20_Witness ==
  /\ grid.done
  /\ Len(grid.rows) = 2
  /\ Len(hourly) = 2
  /\ hourly[1].date > hourly[2].date
  /\ hourly[1].hour = 23 /\ hourly[2].hour = 0
  /\ IsNumber(hourly[1].t) /\ IsNumber(hourly[2].t)
  /\ grid.rows[2].cells[23] = hourly[1].t
  /\ grid.rows[1].cells[0] = hourly[2].t

\* C17: whatever the interleaving of the callers' get and set, the Memory
\* Tier holds at most its capacity of entries, one per key, and the bytes of
\* an entry were given to a set of its key or read from the Durable Backend
\* for its key.
C17_MemoryTierNotCorrupted ==
  /\ Len(MEMORY_CACHE) <= MAX_MEMORY_CACHE_SIZE
  /\ Cardinality(MapKeys(MEMORY_CACHE)) = Len(MEMORY_CACHE)
  /\ {MEMORY_CACHE[i] : i \in 1..Len(MEMORY_CACHE)} \subseteq origin

\* a set and a get of two callers are in progress on the contended key, the
\* Memory Tier is about to be full and its oldest entry has been evicted
C17_Witness ==
  /\ Len(MEMORY_CACHE) >= MAX_MEMORY_CACHE_SIZE - 1
  /\ MapFirstKey(MEMORY_CACHE) # WarmEntries(1)[1].k
  /\ \E r1, r2 \in Reqs :
       /\ req[r1].op = "set" /\ req[r1].pc \in {"fs_write", "az_upload"}
       /\ req[r2].op = "get" /\ req[r2].pc = "returned" /\ req[r2].io = "read"

\* the request being served is for the contended fingerprint, arrived after
\* a request for it had rendered and written back, and is past its cache.get
AfterWriteBack ==
  /\ HotRequest
  /\ writeBack.after \in {"memory", "durable"}
  /\ http[Filler].stage \in {"fetch", "encode", "responded"}

ServedFromCache ==
  http[Filler].stage = "responded" /\ http[Filler].response = "cached"

C13_ResponseBeforeDurableWrite ==
  \A r \in Reqs :
    (req[r].op = "set" /\ InCall(r))
      => (http[r].stage = "responded" /\ http[r].response = "rendered")

\* the durable write of a handler has failed, and the image was sent
C13_Witness ==
  \E r \in Reqs :
    /\ req[r].op = "set"
    /\ req[r].pc = "returned"
    /\ req[r].io = "error"
    /\ http[r].response = "rendered"

\* C14: no failure of a cache operation makes a request fail: no request
\* gets an error response that the cache has caused.
C14_NoErrorFromCache ==
  \A r \in Reqs : http[r].response = "500" => http[r].cause # "cache"

\* the step of caller r is the end of a durable read that stores what it read
ReadStores(r) ==
  /\ req[r].op = "get"
  /\ req[r].pc \in {"fs_read", "az_download"}
  /\ req'[r].pc = "returned"
  /\ req'[r].io = "read"

\* C24: a get that missed the Memory Tier and read older bytes from the
\* Durable Backend does not replace the bytes that a set of the same key has
\* written to the Memory Tier since: while the set's bytes are the entry of
\* the key, the end of the get's read leaves them there.
C24_GetKeepsNewerSet ==
  [][\A r, w \in Reqs :
       (/\ ReadStores(r)
        /\ req[w].op = "set" /\ InCall(w) /\ CallKey(w) = CallKey(r)
        /\ MapHas(MEMORY_CACHE, CallKey(w))
        /\ MapGet(MEMORY_CACHE, CallKey(w)) = req[w].data)
         => MapGet(MEMORY_CACHE', CallKey(w)) = req[w].data]_vars

\* the step of caller r writes the Memory Tier: it is the call of a set, or
\* the end of a durable read that stores what it read
WritesMemory(r) ==
  \/ req[r].pc = "ready" /\ req'[r].op = "set"
  \/ ReadStores(r)

\* C25: a write of a key that is present in the Memory Tier, by a set or by a
\* get that stores what it read, removes no key from the Memory Tier, also
\* when the tier is full.
C25_RewriteRemovesNothing ==
  [][\A r \in Reqs :
       (/\ WritesMemory(r)
        /\ MapHas(MEMORY_CACHE, MemoryKey(req'[r].key, req'[r].format)))
         => MapKeys(MEMORY_CACHE) \subseteq MapKeys(MEMORY_CACHE')]_vars

\* the step of caller r is a step of its get that does not return bytes
GetStepWithoutBytes(r) ==
  /\ req'[r] # req[r]
  /\ req'[r].op = "get"
  /\ req'[r].io \notin {"memory", "read"}

\* C29: a get that finds the key neither in the Memory Tier nor in the
\* Durable Backend, or whose durable read fails, leaves the Memory Tier as it
\* is: none of its steps adds, replaces or evicts an entry.
C29_MissLeavesMemoryTier ==
  [][\A r \in Reqs :
       GetStepWithoutBytes(r) => MEMORY_CACHE' = MEMORY_CACHE]_vars

\* with the Memory Tier full, one get has found no durable copy and the
\* durable read of another has failed
C29_Witness ==
  /\ Len(MEMORY_CACHE) = MAX_MEMORY_CACHE_SIZE
  /\ \E r1, r2 \in Reqs :
       /\ req[r1].op = "get" /\ req[r1].pc = "returned"
       /\ req[r1].io = "absent"
       /\ req[r2].op = "get" /\ req[r2].pc = "returned"
       /\ req[r2].io = "error"

\* the step of caller r is a call of get or set on an object-store backend
\* that has no container client: its init() has not got that far, or failed
CallWithoutClient(r) ==
  /\ req[r].pc = "ready"
  /\ req[r].cache = "azure"
  /\ ~containerClient
  /\ req'[r].op \in {"get", "set"}

\* C26: on an object-store backend without container client, get answers as
\* the Memory Tier alone does (the bytes it holds, else a miss) and set writes
\* the Memory Tier; neither throws.
C26_WorksWithoutClient ==
  [][\A r \in Reqs :
       CallWithoutClient(r) =>
         LET q == req'[r]
             memoryKey == MemoryKey(q.key, q.format)
         IN  /\ q.pc = "returned"
             /\ ~q.threw
             /\ q.op = "get" =>
                  q.ret = IF MapHas(MEMORY_CACHE, memoryKey)
                            THEN MapGet(MEMORY_CACHE, memoryKey)
                            ELSE Null
             /\ q.op = "set" =>
                  /\ q.ret = Undefined
                  /\ MapHas(MEMORY_CACHE', memoryKey)
                  /\ MapGet(MEMORY_CACHE', memoryKey) = q.data]_vars

\* a handler that got the object-store backend before its init() had a
\* container client has missed, rendered, sent the image and stored it
C26_Witness ==
  \E r \in Reqs :
    /\ req[r].cache = "azure"
    /\ ~containerClient
    /\ req[r].op = "set"
    /\ req[r].pc = "returned"
    /\ ~req[r].threw
    /\ http[r].response = "rendered"
    /\ MapHas(MEMORY_CACHE, CallKey(r))

ErrorResponse(r) == http[r].response \in {"400", "500"}

\* C27: a request that has ended in an error response (no location, upstream
\* failure, no data to render, encoding failure, failing cache read) has not
\* called cache.set: only requests that sent a rendered image call it.
C27_ErrorsNotCached ==
  \A r \in Reqs :
    /\ ErrorResponse(r) => req[r].op # "set"
    /\ req[r].op = "set" => http[r].response = "rendered"

\* requests have failed upstream, for want of data, in the encoder and for
\* want of a location, and the contended key is in no tier of the cache
C27_Witness ==
  /\ \E r \in Reqs :
       /\ http[r].response = "500"
       /\ http[r].cause \in {"upstream", "render", "encode"}
  /\ ~MapHas(MEMORY_CACHE, MemoryKey(HotKey, hotFormat))
  /\ ~HasFile(files, GetCachePath(HotKey, hotFormat))
  /\ ~HasFile(blobs, GetCachePath(HotKey, hotFormat))

\* C28: a request gets exactly one response: none before the handler
\* responds and one from then on, whatever becomes of the durable write of
\* its set().
C28_OneResponse ==
  \A r \in Reqs :
    http[r].responses = IF http[r].stage = "responded" THEN 1 ELSE 0

\* the durable write of a handler that has sent its image has failed, and the
\* request still has its one response
C28_Witness ==
  \E r \in Reqs :
    /\ http[r].stage = "responded"
    /\ http[r].responses = 1
    /\ req[r].op = "set"
    /\ req[r].pc = "returned"
    /\ req[r].io = "error"
    /\ req[r].cache = "fs"

\* C30: getCache() resolves to a backend in the end, whatever the
\* configuration and whatever fails during the initialization: a caller that
\* awaits the initialization gets a file-system or an object-store backend.
C30_GetCacheResolves ==
  \A r \in Reqs :
    (req[r].pc = "await_init")
      ~> (req[r].pc = "ready" /\ req[r].cache \in {"fs", "azure"})

\* the object store was selected and its init() has thrown: the caller that
\* awaited the initialization has got the file-system backend
C30_Witness ==
  \E r \in Reqs :
    /\ STORAGE_TYPE = "azure-blob"
    /\ azureFailure \in {"import", "client"}
    /\ initPc = "done"
    /\ initStarts = 1
    /\ req[r].pc = "ready"
    /\ req[r].cache = "fs"
    /\ yielded = {"fs"}

\* the builder that the handler has called has thrown
BuilderThrew == (daily.done /\ daily.threw) \/ (grid.done /\ grid.threw)

\* C21: a series without timestamps never yields an image: the builder the
\* handler calls, buildWeatherChartSvg or buildYearHeatmapSvg, throws, the
\* request is answered 500 and nothing is written to the cache.
C21_EmptySeriesNoImage ==
  (Len(hourly) = 0 /\ (daily.done \/ grid.done))
    => /\ BuilderThrew
       /\ http[Filler].stage = "responded"
       /\ http[Filler].response = "500"
       /\ http[Filler].cause = "render"
       /\ req[Filler].op # "set"
       /\ MEMORY_CACHE = <<>>

\* the upstream data had no timestamps, the heatmap builder has thrown and
\* the request was answered 500
C21_Witness ==
  /\ Len(hourly) = 0
  /\ grid.done
  /\ grid.threw
  /\ http[Filler].response = "500"

\* C22: the canvas of both variants follows the data: a range chart of more
\* than one record is not of the size of a range chart of one record, and
\* the year heatmap is numCols cells wide and one cell high per row, plus
\* its margins.
C22_CanvasFollowsData ==
  /\ (daily.done /\ Len(daily.rows) > 1)
       => LET one == buildWeatherChartSvg(<<hourly[1]>>)
          IN  <<daily.width, daily.height>> # <<one.width, one.height>>
  /\ (grid.done /\ ~grid.threw)
       => /\ grid.width = numCols * grid.cellSize + HEATMAP_MARGIN.left
                            + HEATMAP_MARGIN.right
          /\ grid.height = Len(grid.rows) * grid.cellSize + HEATMAP_MARGIN.top
                             + HEATMAP_MARGIN.bottom

\* the string is a decimal integer (digits only, after an optional minus
\* sign) between lo and hi
IntegerIn(q, lo, hi) ==
  LET digits == IF q.s # <<>> /\ Head(q.s) = "-" THEN Tail(q.s) ELSE q.s
  IN  /\ q.given
      /\ digits # <<>>
      /\ DigitPrefix(digits) = digits
      /\ ParseInt(q.s).v \in lo..hi

\* the request of handler Filler was rejected before any cache lookup,
\* upstream fetch or render
RejectedAtOnce ==
  /\ http[Filler].stage = "responded"
  /\ http[Filler].response = "400"
  /\ http[Filler].cause = "validation"
  /\ req[Filler] = IdleReq

\* the handler never passes a cell size outside 1..64 to the renderer
CellSizeInBounds ==
  http[Filler].cellSize # Undefined => http[Filler].cellSize \in 1..64

Arrived == http[Filler].stage # "idle"

\* C23 as stated: a request whose year is given (and not empty) and is not
\* an integer in 1940..current year, or whose cell_size is given and is not
\* an integer in 1..64, is rejected before any cache lookup, upstream fetch
\* or render.
C23_NonIntegerRejected ==
  (/\ Arrived
   /\ \/ http[Filler].year.given /\ http[Filler].year.s # <<>>
           /\ ~IntegerIn(http[Filler].year, 1940, CurrentYear)
      \/ http[Filler].cell_size.given
           /\ ~IntegerIn(http[Filler].cell_size, 1, 64))
    => RejectedAtOnce

\* C23: a request whose year is not empty and is parsed by parseInt to NaN or
\* to an integer outside 1940..current year, or whose cell_size is given and
\* is parsed to NaN or to an integer outside 1..64, is rejected before any
\* cache lookup, upstream fetch or render; the renderer is never called with
\* a cell size outside 1..64.
C23_UnparsableOrOutOfRangeRejected ==
  /\ (/\ Arrived
      /\ \/ YearRejected(ParsedYear(http[Filler].year))
         \/ http[Filler].cell_size.given
              /\ LET cellSize == ParseInt(http[Filler].cell_size.s)
                 IN  cellSize.nan \/ cellSize.v \notin 1..64)
       => RejectedAtOnce
  /\ CellSizeInBounds

\* a request with a year in range and cell_size 65 was rejected at once
C23_Witness ==
  /\ RejectedAtOnce
  /\ http[Filler].year = Given(<<"1", "9", "4", "0">>)
  /\ http[Filler].cell_size = Given(<<"6", "5">>)

====
